---- MODULE Spec2Model ----
(***************************************************************************)
(* Model of pagerank.py: transition_model, sample_pagerank and             *)
(* iterate_pagerank (with calculate_pagerank and hasConverged), called in  *)
(* any order on one corpus object.                                         *)
(*                                                                         *)
(* Pages are 1..N in the corpus dict's insertion order.  Probabilities are *)
(* exact: the values of transition_model and sample_pagerank are reduced   *)
(* fractions <<num, den>>; the ranks of iterate_pagerank are fixed-point   *)
(* numbers, a rank r being the natural number r * Scale, held as a         *)
(* sequence of base-1000000 digits (least significant first).  Scale is      *)
(* chosen so that every division the iteration performs is exact.          *)
(***************************************************************************)
EXTENDS Integers, Sequences, FiniteSets, TLC

VARIABLES corpus, op, pc, outcome, result, damping_factor, page, n, sampleLen,
          pageRank, pageRanks, newRanks, idx, iter

vars == <<corpus, op, pc, outcome, result, damping_factor, page, n, sampleLen,
          pageRank, pageRanks, newRanks, idx, iter>>

\* ---------------------------------------------------------------- bounds
MaxPages == 3

MaxSamples == 2

MaxIterations == 9

\* The damping factors tried, as fractions: 0, 1/2 and 1.
Dampings == {<<0, 1>>, <<1, 2>>, <<1, 1>>}

\* ------------------------------------------------- exact small fractions
RECURSIVE GCD(_, _)
GCD(a, b) == IF b = 0 THEN a ELSE GCD(b, a % b)

LCM(a, b) == (a \div GCD(a, b)) * b

RECURSIVE LcmUpTo(_)
LcmUpTo(k) == IF k <= 1 THEN 1 ELSE LCM(k, LcmUpTo(k - 1))

\* The fraction a/b (b > 0, a >= 0) in lowest terms.
Frac(a, b) == LET g == GCD(a, b) IN <<a \div g, b \div g>>

FracAdd(x, y) == Frac(x[1] * y[2] + y[1] * x[2], x[2] * y[2])

\* 1 - x, for 0 <= x <= 1
FracOneMinus(x) == Frac(x[2] - x[1], x[2])

\* x / k for a positive integer k
FracDivInt(x, k) == Frac(x[1], x[2] * k)

RECURSIVE FracSum(_, _)
FracSum(f, S) ==
    IF S = {} THEN <<0, 1>>
    ELSE LET p == CHOOSE q \in S : TRUE IN FracAdd(f[p], FracSum(f, S \ {p}))

\* ------------------------------------------------ exact fixed-point ranks
\* A natural number is the sequence of its base-Base digits, the least
\* significant first, without leading zeros (0 is <<>>).  Each operator binds
\* its operands through one-element sets, so that an operand is evaluated
\* once however often the body uses it.
Base == 1000000

RECURSIVE BigFromInt(_)
BigFromInt(k) == IF k = 0 THEN <<>> ELSE <<k % Base>> \o BigFromInt(k \div Base)

\* a + b + c, c a carry of 0 or 1
RECURSIVE BigAddC(_, _, _)
BigAddC(x, y, c0) ==
    CHOOSE r \in
      { IF a = <<>> /\ b = <<>>
        THEN IF c = 0 THEN <<>> ELSE <<c>>
        ELSE LET s == (IF a = <<>> THEN 0 ELSE Head(a))
                      + (IF b = <<>> THEN 0 ELSE Head(b)) + c
             IN <<s % Base>> \o BigAddC(IF a = <<>> THEN a ELSE Tail(a),
                                        IF b = <<>> THEN b ELSE Tail(b),
                                        s \div Base)
        : a \in {x}, b \in {y}, c \in {c0} } : TRUE

BigAdd(a, b) == BigAddC(a, b, 0)

\* a * m + c
RECURSIVE BigMulC(_, _, _)
BigMulC(x, m, c0) ==
    CHOOSE r \in
      { IF a = <<>>
        THEN BigFromInt(c)
        ELSE LET s == Head(a) * m + c
             IN <<s % Base>> \o BigMulC(Tail(a), m, s \div Base)
        : a \in {x}, c \in {c0} } : TRUE

\* a * m for a small natural m
BigMulSmall(a, m) == IF m = 0 THEN <<>> ELSE BigMulC(a, m, 0)

\* <<quotient, remainder>> of a by a small positive m
RECURSIVE BigDivRem(_, _)
BigDivRem(x, m) ==
    CHOOSE r \in
      { IF a = <<>>
        THEN <<<<>>, 0>>
        ELSE CHOOSE t \in
               { LET cur == hi[2] * Base + Head(a)
                     q == cur \div m
                 IN <<IF q = 0 /\ hi[1] = <<>> THEN <<>> ELSE <<q>> \o hi[1],
                      cur % m>>
                 : hi \in {BigDivRem(Tail(a), m)} } : TRUE
        : a \in {x} } : TRUE

BigDivSmall(a, m) == BigDivRem(a, m)[1]

\* -1, 0 or 1 as a < b, a = b, a > b
RECURSIVE BigCmp(_, _)
BigCmp(x, y) ==
    CHOOSE r \in
      { IF Len(a) # Len(b) THEN (IF Len(a) < Len(b) THEN -1 ELSE 1)
        ELSE IF a = <<>> THEN 0
        ELSE CHOOSE t \in
               { IF c # 0 THEN c
                 ELSE IF Head(a) < Head(b) THEN -1
                 ELSE IF Head(a) > Head(b) THEN 1 ELSE 0
                 : c \in {BigCmp(Tail(a), Tail(b))} } : TRUE
        : a \in {x}, b \in {y} } : TRUE

RECURSIVE BigStrip(_)
BigStrip(x) ==
    CHOOSE r \in
      { IF a = <<>> THEN a
        ELSE IF a[Len(a)] = 0 THEN BigStrip(SubSeq(a, 1, Len(a) - 1)) ELSE a
        : a \in {x} } : TRUE

\* a - b - c for a >= b + c, c a borrow of 0 or 1; may end in zeros
RECURSIVE BigSubC(_, _, _)
BigSubC(x, y, c0) ==
    CHOOSE r \in
      { IF a = <<>> THEN <<>>
        ELSE LET s == Head(a) - (IF b = <<>> THEN 0 ELSE Head(b)) - c
             IN <<IF s < 0 THEN s + Base ELSE s>>
                \o BigSubC(Tail(a), IF b = <<>> THEN b ELSE Tail(b),
                           IF s < 0 THEN 1 ELSE 0)
        : a \in {x}, b \in {y}, c \in {c0} } : TRUE

\* abs(a - b)
BigAbsDiff(x, y) ==
    CHOOSE r \in
      { IF BigCmp(a, b) >= 0 THEN BigStrip(BigSubC(a, b, 0))
        ELSE BigStrip(BigSubC(b, a, 0))
        : a \in {x}, b \in {y} } : TRUE

RECURSIVE BigPow(_, _)
BigPow(m, k) == IF k = 0 THEN <<1>> ELSE BigMulSmall(BigPow(m, k - 1), m)

RECURSIVE BigSum(_, _)
BigSum(f, S) ==
    IF S = {} THEN <<>>
    ELSE LET p == CHOOSE q \in S : TRUE IN BigAdd(f[p], BigSum(f, S \ {p}))

\* The common denominator of the damping factors tried.
RECURSIVE DampDenOf(_)
DampDenOf(S) ==
    IF S = {} THEN 1
    ELSE LET d == CHOOSE q \in S : TRUE IN LCM(d[2], DampDenOf(S \ {d}))

DampDen == DampDenOf(Dampings)

\* One iteration divides a rank by an outlink count (<= MaxPages) and by the
\* damping factor's denominator; Scale holds that factor once per iteration,
\* and twice more.
StepFactor == DampDen * LcmUpTo(MaxPages)

Scale == BigMulSmall(BigPow(StepFactor, MaxIterations + 2), LcmUpTo(MaxPages))

\* hasConverged's tolerance 0.001, as 1/ThresholdDen
ThresholdDen == 1000

\* ----------------------------------------------------------------- inputs
\* What crawl returns: every link is a page of the corpus, no page links to
\* itself.
ValidGraph(c) ==
    \A p \in DOMAIN c : c[p] \subseteq DOMAIN c /\ p \notin c[p]

Corpora ==
    UNION {{c \in [1..k -> SUBSET (1..k)] : ValidGraph(c)} : k \in 0..MaxPages}

EmptyDict == <<>>

\* ------------------------------------------------------- transition_model
\* The two-way weighted draw of lines 71-81: an alternative of weight 0 is
\* never drawn.  linkedPages is the page's outlink set, or the very set
\* object allPages when the page has none.
Selections(c, pg, d) ==
    LET allPages == DOMAIN c
        linkedPages == IF pg \in DOMAIN c /\ Cardinality(c[pg]) > 0
                       THEN c[pg] ELSE allPages
    IN (IF d[1] > 0 THEN {linkedPages} ELSE {})
       \cup (IF FracOneMinus(d)[1] > 0 THEN {allPages} ELSE {})

\* Lines 83-92, for the set drawn.
probabilityDict(pg, d, selection) ==
    LET probabilityPerPage == FracDivInt(d, Cardinality(selection))
        teleportationProbability ==
            FracDivInt(FracOneMinus(d), Cardinality(selection) + 1)
    IN [p \in {pg} \cup selection |->
           IF p \in selection
           THEN FracAdd(probabilityPerPage, teleportationProbability)
           ELSE teleportationProbability]

\* Every distribution transition_model(c, pg, d) can return.
transition_model(c, pg, d) ==
    {probabilityDict(pg, d, selection) : selection \in Selections(c, pg, d)}

\* -------------------------------------------------------- sample_pagerank
\* random.choices(population, weights): the entries of positive weight.
Drawable(transitionChain) ==
    {p \in DOMAIN transitionChain : transitionChain[p][1] > 0}

\* RecordVisit with the increment under an else: a first visit counts 0.
RecordVisit_ElseIncrement(pr, sample) ==
    IF sample \in DOMAIN pr THEN [pr EXCEPT ![sample] = @ + 1]
    ELSE (sample :> 0) @@ pr

\* Lines 133-136
RecordVisit(pr, sample) ==
    LET withKey == IF sample \in DOMAIN pr THEN pr ELSE (sample :> 0) @@ pr
    IN [withKey EXCEPT ![sample] = @ + 1]

\* Lines 142-146
VisitsToRanks(pr, len) == [p \in DOMAIN pr |-> Frac(pr[p], len)]

\* ------------------------------------------------------- iterate_pagerank
getAllPages(c) == DOMAIN c

\* NormalizeLink that leaves a page without links as it is.
NormalizeLink_Skip(c, link) == c

\* NormalizeLink that links a page without links to every other page only.
NormalizeLink_NoSelf(c, link) ==
    IF Cardinality(c[link]) = 0
    THEN [c EXCEPT ![link] = getAllPages(c) \ {link}] ELSE c

\* NormalizeLink that also rewrites a page with a single link.
NormalizeLink_UpToOne(c, link) ==
    IF Cardinality(c[link]) <= 1 THEN [c EXCEPT ![link] = getAllPages(c)] ELSE c

\* Lines 171-172, for one link of the loop
NormalizeLink(c, link) ==
    IF Cardinality(c[link]) = 0 THEN [c EXCEPT ![link] = getAllPages(c)] ELSE c

\* The loop of lines 170-178 from `link` on: the sum so far and the corpus,
\* which the loop rewrites as it goes.
RECURSIVE SigmaLoop(_, _, _, _, _)
SigmaLoop(link, pg, c, ranks, sigmaValue) ==
    IF link > Cardinality(DOMAIN c)
    THEN [sigmaValue |-> sigmaValue, corpus |-> c]
    ELSE CHOOSE r \in
           { IF pg \notin c1[link]
             THEN SigmaLoop(link + 1, pg, c1, ranks, sigmaValue)
             ELSE SigmaLoop(link + 1, pg, c1, ranks,
                            BigAdd(sigmaValue,
                                   BigDivSmall(ranks[link], Cardinality(c1[link]))))
             : c1 \in {NormalizeLink(c, link)} } : TRUE

\* The rank returned and the corpus as the call leaves it.
calculate_pagerank(pg, numPage, c, ranks, d) ==
    CHOOSE r \in
      { LET rank == BigDivSmall(BigDivSmall(BigMulSmall(Scale, d[2] - d[1]), d[2]),
                                numPage)
        IN [rank |-> BigAdd(rank,
                            BigDivSmall(BigMulSmall(loop.sigmaValue, d[1]), d[2])),
            corpus |-> loop.corpus]
        : loop \in {SigmaLoop(1, pg, c, ranks, <<>>)} } : TRUE

\* abs(a - b) > 0.001
ExceedsThreshold(a, b) ==
    BigCmp(BigMulSmall(BigAbsDiff(a, b), ThresholdDen), Scale) > 0

\* hasConverged that returns from inside the loop, after its first page.
hasConverged_FirstOnly(new, old) ==
    \A p \in DOMAIN new : p = 1 => ~ExceedsThreshold(new[p], old[p])

hasConverged(new, old) ==
    \A p \in DOMAIN new : ~ExceedsThreshold(new[p], old[p])

numPage == Cardinality(DOMAIN corpus)

\* ------------------------------------------------------------ the program
\* pc: "idle" (the caller may call), "sample" and "iterate" (inside that
\* function's loop), "done" (the call has ended: outcome says how, result
\* holds what it returned, the locals are as the call left them).
Init ==
    /\ corpus \in Corpora
    /\ op = "none"
    /\ pc = "idle"
    /\ outcome = "none"
    /\ result = EmptyDict
    /\ damping_factor = <<0, 1>>
    /\ page = 0
    /\ n = 0
    /\ sampleLen = 0
    /\ pageRank = EmptyDict
    /\ pageRanks = EmptyDict
    /\ newRanks = EmptyDict
    /\ idx = 0
    /\ iter = 0

\* A call of transition_model(corpus, pg, d) for a page of the corpus.
TransitionModelCall ==
    /\ pc = "idle"
    /\ \E d \in Dampings, pg \in DOMAIN corpus :
         \E dist \in transition_model(corpus, pg, d) :
            /\ damping_factor' = d
            /\ page' = pg
            /\ result' = dist
    /\ op' = "transition_model"
    /\ pc' = "done"
    /\ outcome' = "returned"
    /\ UNCHANGED <<corpus, n, sampleLen, pageRank, pageRanks, newRanks, idx, iter>>

\* sample_pagerank, lines 105-112, on a corpus with pages.
SampleStart ==
    /\ pc = "idle"
    /\ DOMAIN corpus # {}
    /\ \E d \in Dampings, k \in 1..MaxSamples, start \in DOMAIN corpus :
            /\ damping_factor' = d
            /\ n' = k
            /\ sampleLen' = k
            /\ page' = start
    /\ pageRank' = EmptyDict
    /\ op' = "sample_pagerank"
    /\ pc' = "sample"
    /\ UNCHANGED <<corpus, outcome, result, pageRanks, newRanks, idx, iter>>

\* sample_pagerank on a corpus without pages: random.choice([]) at line 112.
SampleEmptyCorpus ==
    /\ pc = "idle"
    /\ DOMAIN corpus = {}
    /\ \E d \in Dampings, k \in 1..MaxSamples :
            /\ damping_factor' = d
            /\ n' = k
            /\ sampleLen' = k
    /\ op' = "sample_pagerank"
    /\ pc' = "done"
    /\ outcome' = "IndexError"
    /\ UNCHANGED <<corpus, result, page, pageRank, pageRanks, newRanks, idx, iter>>

\* One pass of the while loop, lines 114-140.
SampleStep ==
    /\ pc = "sample"
    /\ n > 0
    /\ \E transitionChain \in transition_model(corpus, page, damping_factor) :
         \E sample \in Drawable(transitionChain) :
            /\ pageRank' = RecordVisit(pageRank, sample)
            /\ page' = sample
    /\ n' = n - 1
    /\ op' = "sample_pagerank"
    /\ UNCHANGED <<corpus, pc, outcome, result, damping_factor, sampleLen,
                   pageRanks, newRanks, idx, iter>>

\* Lines 142-148.
SampleReturn ==
    /\ pc = "sample"
    /\ n <= 0
    /\ pageRank' = VisitsToRanks(pageRank, sampleLen)
    /\ result' = pageRank'
    /\ pc' = "done"
    /\ outcome' = "returned"
    /\ op' = "sample_pagerank"
    /\ UNCHANGED <<corpus, damping_factor, page, n, sampleLen,
                   pageRanks, newRanks, idx, iter>>

\* iterate_pagerank, lines 203-213, on a corpus with pages, called with a
\* damping factor of D.
IterateStartWith(D) ==
    /\ pc = "idle"
    /\ numPage # 0
    /\ \E d \in D : damping_factor' = d
    /\ pageRanks' = [p \in DOMAIN corpus |-> BigDivSmall(Scale, numPage)]
    /\ newRanks' = EmptyDict
    /\ idx' = 1
    /\ iter' = 0
    /\ op' = "iterate_pagerank"
    /\ pc' = "iterate"
    /\ UNCHANGED <<corpus, outcome, result, page, n, sampleLen, pageRank>>

IterateStart == IterateStartWith(Dampings)

\* The call with a damping factor below 1.
IterateStartDamped == IterateStartWith({d \in Dampings : d[1] < d[2]})

\* iterate_pagerank on a corpus without pages: 1 / numPage at line 204.
IterateEmptyCorpus ==
    /\ pc = "idle"
    /\ numPage = 0
    /\ \E d \in Dampings : damping_factor' = d
    /\ op' = "iterate_pagerank"
    /\ pc' = "done"
    /\ outcome' = "ZeroDivisionError"
    /\ UNCHANGED <<corpus, result, page, n, sampleLen, pageRank, pageRanks,
                   newRanks, idx, iter>>

\* One pass of the for loop of lines 217-224, for the page at position idx.
CalcPage ==
    /\ pc = "iterate"
    /\ idx <= numPage
    /\ \E r \in {calculate_pagerank(idx, numPage, corpus, pageRanks, damping_factor)} :
          /\ newRanks' = (idx :> r.rank) @@ newRanks
          /\ corpus' = r.corpus
    /\ idx' = idx + 1
    /\ op' = "iterate_pagerank"
    /\ UNCHANGED <<pc, outcome, result, damping_factor, page, n, sampleLen,
                   pageRank, pageRanks, iter>>

\* Lines 226-227 and 231: converged, return.
IterateReturn ==
    /\ pc = "iterate"
    /\ idx > numPage
    /\ hasConverged(newRanks, pageRanks)
    /\ result' = pageRanks
    /\ pc' = "done"
    /\ outcome' = "returned"
    /\ op' = "iterate_pagerank"
    /\ UNCHANGED <<corpus, damping_factor, page, n, sampleLen, pageRank,
                   pageRanks, newRanks, idx, iter>>

\* IterateAgain that forgets line 229: pageRanks stays as it is.
IterateAgain_NoCopy ==
    /\ pc = "iterate"
    /\ idx > numPage
    /\ ~hasConverged(newRanks, pageRanks)
    /\ iter < MaxIterations
    /\ idx' = 1
    /\ iter' = iter + 1
    /\ op' = "iterate_pagerank"
    /\ UNCHANGED <<corpus, pc, outcome, result, damping_factor, page, n,
                   sampleLen, pageRank, pageRanks, newRanks>>

\* Lines 226 and 229: not converged, go round again.
IterateAgain ==
    /\ pc = "iterate"
    /\ idx > numPage
    /\ ~hasConverged(newRanks, pageRanks)
    /\ iter < MaxIterations
    /\ pageRanks' = newRanks
    /\ idx' = 1
    /\ iter' = iter + 1
    /\ op' = "iterate_pagerank"
    /\ UNCHANGED <<corpus, pc, outcome, result, damping_factor, page, n,
                   sampleLen, pageRank, newRanks>>

\* Back in the caller (main, lines 14-21): the call's locals and its result
\* are gone, the corpus object stays as the call left it.
BackToCaller ==
    /\ pc = "done"
    /\ pc' = "idle"
    /\ op' = "none"
    /\ outcome' = "none"
    /\ result' = EmptyDict
    /\ damping_factor' = <<0, 1>>
    /\ page' = 0 /\ n' = 0 /\ sampleLen' = 0 /\ pageRank' = EmptyDict
    /\ pageRanks' = EmptyDict /\ newRanks' = EmptyDict /\ idx' = 0 /\ iter' = 0
    /\ UNCHANGED corpus

Next ==
    \/ TransitionModelCall
    \/ SampleStart
    \/ SampleEmptyCorpus
    \/ SampleStep
    \/ SampleReturn
    \/ IterateStart
    \/ IterateEmptyCorpus
    \/ CalcPage
    \/ IterateReturn
    \/ IterateAgain
    \/ BackToCaller

Spec == Init /\ [][Next]_vars

\* A caller that calls iterate_pagerank only, again and again, with damping
\* factors below 1.
IterateNext ==
    \/ IterateStartDamped
    \/ IterateEmptyCorpus
    \/ CalcPage
    \/ IterateReturn
    \/ IterateAgain
    \/ BackToCaller

\* The while loop of iterate_pagerank keeps running until it returns.
FairSpec ==
    /\ Init
    /\ [][IterateNext]_vars
    /\ WF_vars(CalcPage \/ IterateReturn \/ IterateAgain)

\* ------------------------------------------------------------- the claims
IsOne(x) == x = <<1, 1>>

Returned(f) == pc = "done" /\ op = f /\ outcome = "returned"

\* The corpus with every empty outlink set replaced by the set of all pages.
Normalized(c) == [p \in DOMAIN c |-> IF c[p] = {} THEN DOMAIN c ELSE c[p]]

\* The PageRank recurrence for page p on graph c, from the ranks `ranks`:
\* (1 - d)/N + d * sum over q with p in c[q] of ranks[q] / |c[q]|
Recurrence(c, ranks, d, p) ==
    LET share == [q \in DOMAIN c |->
                    IF p \in c[q] THEN BigDivSmall(ranks[q], Cardinality(c[q]))
                    ELSE <<>>]
    IN BigAdd(BigDivSmall(BigMulSmall(Scale, d[2] - d[1]),
                          d[2] * Cardinality(DOMAIN c)),
              BigDivSmall(BigMulSmall(BigSum(share, DOMAIN c), d[1]), d[2]))

\* d/|L| * [p in L] + (1 - d)/N, L the outlinks of pg or all pages if none
StandardTransition(c, pg, d, p) ==
    LET L == IF c[pg] = {} THEN DOMAIN c ELSE c[pg]
        teleport == FracDivInt(FracOneMinus(d), Cardinality(DOMAIN c))
    IN IF p \in L THEN FracAdd(FracDivInt(d, Cardinality(L)), teleport)
       ELSE teleport

\* C1: whatever transition_model returns has every page of the corpus as a
\* key and gives page p the probability d/|L| * [p in L] + (1 - d)/N.
C1_StandardDistribution ==
    Returned("transition_model") =>
        /\ DOMAIN result = DOMAIN corpus
        /\ \A p \in DOMAIN corpus :
              result[p] = StandardTransition(corpus, page, damping_factor, p)

\* C2: on a valid graph with 0 < d < 1, whatever transition_model returns
\* sums to 1 and holds no negative probability.
C2_SumsToOne ==
    ( /\ Returned("transition_model")
      /\ ValidGraph(corpus)
      /\ 0 < damping_factor[1] /\ damping_factor[1] < damping_factor[2] ) =>
        /\ IsOne(FracSum(result, DOMAIN result))
        /\ \A p \in DOMAIN result : result[p][1] >= 0

\* C3: sample_pagerank records one visit per step of the walk and none for
\* the start page; what it returns are fractions k/n with k >= 1 that sum
\* to 1.
C3_OneVisitPerSample ==
    /\ pc = "sample" =>
          /\ FracSum([p \in DOMAIN pageRank |-> <<pageRank[p], 1>>],
                     DOMAIN pageRank) = <<sampleLen - n, 1>>
          /\ \A p \in DOMAIN pageRank : pageRank[p] >= 1
    /\ Returned("sample_pagerank") =>
          /\ \A p \in DOMAIN result :
                \E k \in 1..sampleLen : result[p] = Frac(k, sampleLen)
          /\ IsOne(FracSum(result, DOMAIN result))

C3_Witness ==
    /\ Returned("sample_pagerank")
    /\ sampleLen = MaxSamples
    /\ Cardinality(DOMAIN result) >= 2
    /\ DOMAIN result # DOMAIN corpus

\* C4: what iterate_pagerank returns is new_rank, the ranks of its last
\* iteration.
C4_ReturnsNewRank ==
    Returned("iterate_pagerank") => result = newRanks

\* C5: one more step of the recurrence on what iterate_pagerank returned
\* moves no page's rank by more than 0.001.
C5_IdempotentAtConvergence ==
    Returned("iterate_pagerank") =>
        \A p \in DOMAIN result :
            ~ExceedsThreshold(
                Recurrence(Normalized(corpus), result, damping_factor, p),
                result[p])

C5_Witness ==
    /\ Returned("iterate_pagerank")
    /\ iter >= 2
    /\ \E p \in DOMAIN result :
          Recurrence(Normalized(corpus), result, damping_factor, p) # result[p]

\* C6: the ranks of iterate_pagerank sum to 1 at the start and after every
\* iteration, and what it returns covers every page and sums to 1.
C6_RanksSumToOne ==
    /\ pc = "iterate" =>
          /\ DOMAIN pageRanks = DOMAIN corpus
          /\ BigSum(pageRanks, DOMAIN pageRanks) = Scale
          /\ idx > numPage => BigSum(newRanks, DOMAIN newRanks) = Scale
    /\ Returned("iterate_pagerank") =>
          /\ DOMAIN result = DOMAIN corpus
          /\ BigSum(result, DOMAIN result) = Scale
          /\ \A p \in DOMAIN result : BigCmp(result[p], <<>>) >= 0

\* A graph of three pages, the last without links (as A->B, B->C, C->{}),
\* normalised by the call, after a second iteration.
C6_Witness ==
    /\ pc = "iterate"
    /\ numPage = 3
    /\ corpus = <<{2}, {3}, {1, 2, 3}>>
    /\ iter >= 1
    /\ idx > numPage
    /\ newRanks # pageRanks

\* C7: for d < 1 the loop of iterate_pagerank reaches its return.
C7_Terminates ==
    (pc = "iterate" /\ damping_factor[1] < damping_factor[2])
        ~> Returned("iterate_pagerank")

C7_Witness ==
    /\ Returned("iterate_pagerank")
    /\ damping_factor[1] < damping_factor[2]
    /\ iter >= 5

\* C8: on a corpus without pages sample_pagerank and iterate_pagerank end
\* in an EmptyCorpusError.
C8_EmptyCorpusError ==
    (pc = "done" /\ numPage = 0 /\ op \in {"sample_pagerank", "iterate_pagerank"})
        => outcome = "EmptyCorpusError"

\* C9: every rank an iteration has computed is the recurrence applied to
\* the previous iteration's ranks on the normalised graph, from the first
\* iteration on.
C9_RecurrenceOnPreviousRanks ==
    (pc = "iterate" \/ Returned("iterate_pagerank")) =>
        \A p \in 1..(idx - 1) :
            newRanks[p] =
                Recurrence(Normalized(corpus), pageRanks, damping_factor, p)

\* The first iteration is over on a graph whose second page had no links:
\* it has passed its rank / N on to every page, itself included.
C9_Witness ==
    /\ pc = "iterate"
    /\ iter = 0
    /\ idx > numPage
    /\ numPage >= 2
    /\ 2 \in corpus[2]
    /\ newRanks # pageRanks

\* C10: a step changes the corpus at most by replacing empty outlink sets
\* by the set of all pages, and a step of transition_model or of
\* sample_pagerank leaves it unchanged.
C10_OnlyDanglingNormalized ==
    [][ /\ DOMAIN corpus' = DOMAIN corpus
        /\ \A p \in DOMAIN corpus :
              \/ corpus'[p] = corpus[p]
              \/ corpus[p] = {} /\ corpus'[p] = DOMAIN corpus
        /\ op' \in {"transition_model", "sample_pagerank"} => corpus' = corpus
      ]_vars

\* sample_pagerank has run on a corpus that an earlier iterate_pagerank
\* normalised.
C10_Witness ==
    /\ Returned("sample_pagerank")
    /\ \E p \in DOMAIN corpus : p \in corpus[p]
    /\ \E p \in DOMAIN corpus : corpus[p] # DOMAIN corpus

====
